---- MODULE Spec2Model ----
(***************************************************************************)
(* Orchestration core of MyFinGPT: the shared AgentState with its          *)
(* per-field reducers, the stage graph built by MyFinGPTWorkflow, the      *)
(* stage nodes wrapping the agents, the intent classifier behind the       *)
(* routing node and the ContextMerger used by the per-symbol research      *)
(* fan-out.                                                                *)
(*                                                                         *)
(* A Python dict is a function whose DOMAIN is the set of keys present.    *)
(* A Python list is a sequence.  None is NoneStr for an optional string    *)
(* and NoTime for a datetime.  Error messages are pairs <<text, subject>>. *)
(* datetime.utcnow() is the logical clock.                                 *)
(***************************************************************************)
EXTENDS Integers, Sequences, FiniteSets, TLC

VARIABLES
    cfg,        \* constructor arguments of MyFinGPTWorkflow
    status,     \* "idle" | "running" | "done" | "raised" : position of execute()
    input,      \* the state dict handed to execute()
    chan,       \* the graph state (one value per declared key written so far)
    pending,    \* nodes triggered in the current step that have not run yet
    outbox,     \* <<node, returned state>> of the nodes of this step, in completion order
    prev,       \* the last completed step: the graph state it read, the states it returned
    log,        \* nodes in the order they started
    clock,      \* datetime.utcnow()
    rp,         \* position inside _research_parallel_node's per-symbol loop
    branches,   \* the branch states handed to the merge functions
    merges,     \* what merging them gave, in both orders
    call,       \* a call of one function of the core: its name and arguments
    ret,        \* what the call returned
    progress_tracker,   \* MyFinGPTWorkflow.progress_tracker of one workflow instance
    trackers,   \* the ProgressTracker handed to each execute() call
    executions  \* the execute() calls on that instance: position, stage threads

flowVars == <<cfg, status, input, chan, pending, outbox, prev, log, clock, rp>>
mergeVars == <<branches, merges>>
callVars == <<call, ret>>
trackVars == <<progress_tracker, trackers, executions>>
vars == <<flowVars, mergeVars, callVars, trackVars>>

-----------------------------------------------------------------------------
(* Bounds of the model *)

MaxSymbols == 2
MaxStates == 3
MaxExecutions == 2
MaxStageRuns == 4

Syms == {"AAPL", "MSFT"}

-----------------------------------------------------------------------------
(* Python values *)

NoneStr == "None"
NoTime == 0

Has(d, k) == k \in DOMAIN d
Get(d, k, default) == IF k \in DOMAIN d THEN d[k] ELSE default
Put(d, k, v) == [x \in (DOMAIN d) \cup {k} |-> IF x = k THEN v ELSE d[x]]
Drop(d, ks) == [x \in (DOMAIN d) \ ks |-> d[x]]
EmptyDict == <<>>
Contains(list, item) == \E i \in 1..Len(list) : list[i] = item
Range(list) == {list[i] : i \in 1..Len(list)}
MaxOf(a, b) == IF a >= b THEN a ELSE b

\* The text of a query, by what the keyword tests of the classifier and of the
\* parser can see of it.  For each intent: 0 no keyword, 1 a keyword only the
\* classifier lists, 2 a keyword both list.  syms: the tickers the regex finds.
PlainQuery ==
    [blank |-> FALSE, cmp |-> 0, trend |-> 0, edgar |-> 0, compr |-> 0,
     metric |-> FALSE, syms |-> <<>>]
EmptyQuery == [PlainQuery EXCEPT !.blank = TRUE]

-----------------------------------------------------------------------------
(* models/state.py : the reducers and the field table *)

StrFields == {"transaction_id", "session_id", "query"}
DictFields == {"research_data", "analyst_data", "edgar_data", "comparison_data",
               "trend_analysis", "intent_flags", "entities", "token_usage"}
OptFields == {"report", "query_type"}
ListFields == {"errors", "citations"}
AgentState == StrFields \cup DictFields \cup OptFields \cup ListFields
                \cup {"symbols", "created_at", "updated_at"}

IsEmptyStr(k, v) == IF k = "query" THEN v = EmptyQuery ELSE v = ""

first_value_reducer(k, left, right) ==
    CASE k = "created_at" -> IF left = NoTime THEN right ELSE left
      [] k \in StrFields ->
            IF IsEmptyStr(k, left) /\ ~IsEmptyStr(k, right) THEN right ELSE left
      [] k = "symbols" ->
            IF Len(left) = 0 /\ Len(right) > 0 THEN right ELSE left

\* What first_value_reducer reports of a call: its only messages are the
\* logger.debug lines of the three replacements of an empty left value.
first_value_log(k, left, right) ==
    CASE k = "created_at" -> IF left = NoTime THEN "Replacing None" ELSE "nothing"
      [] k \in StrFields ->
            IF IsEmptyStr(k, left) /\ ~IsEmptyStr(k, right)
            THEN "Replacing empty string" ELSE "nothing"
      [] k = "symbols" ->
            IF Len(left) = 0 /\ Len(right) > 0
            THEN "Replacing empty list" ELSE "nothing"

dict_merge_reducer(left, right) ==
    [x \in (DOMAIN left) \cup (DOMAIN right) |->
        IF x \in DOMAIN right THEN right[x] ELSE left[x]]

RECURSIVE ExtendNew(_, _)
ExtendNew(result, right) ==
    IF right = <<>> THEN result
    ELSE ExtendNew(IF Contains(result, Head(right)) THEN result
                   ELSE Append(result, Head(right)),
                   Tail(right))

\* A list reducer that keeps the last written list
list_replace_reducer(left, right) == right

list_extend_reducer(left, right) == ExtendNew(left, right)

latest_datetime_reducer(left, right) ==
    IF left = NoTime THEN right
    ELSE IF right = NoTime THEN left
    ELSE MaxOf(left, right)

optional_string_reducer(left, right) ==
    IF right # NoneStr THEN right ELSE left

\* The Annotated[...] table of AgentState.
Reduce(k, left, right) ==
    CASE k \in StrFields \cup {"symbols", "created_at"} -> first_value_reducer(k, left, right)
      [] k \in DictFields -> dict_merge_reducer(left, right)
      [] k \in OptFields -> optional_string_reducer(left, right)
      [] k \in ListFields -> list_extend_reducer(left, right)
      [] k = "updated_at" -> latest_datetime_reducer(left, right)

\* What a key of the graph state holds before its first write.
EmptyOf(k) ==
    CASE k = "query" -> EmptyQuery
      [] k \in StrFields \ {"query"} -> ""
      [] k \in DictFields -> EmptyDict
      [] k \in OptFields -> NoneStr
      [] k \in ListFields \cup {"symbols"} -> <<>>
      [] k \in {"created_at", "updated_at"} -> NoTime

\* One returned state applied to the graph state: every declared key of the
\* update goes through its reducer, other keys of the graph state are kept.
ApplyUpdate(state, update) ==
    [k \in (DOMAIN state) \cup ((DOMAIN update) \cap AgentState) |->
        IF k \in DOMAIN update
        THEN Reduce(k, Get(state, k, EmptyOf(k)), update[k])
        ELSE state[k]]

RECURSIVE ApplyWrites(_, _)
ApplyWrites(state, writes) ==
    IF writes = <<>> THEN state
    ELSE ApplyWrites(ApplyUpdate(state, Head(writes)[2]), Tail(writes))

-----------------------------------------------------------------------------
(* agents/*.py : the agents' execute methods *)

Returned(s) == [raised |-> FALSE, state |-> s]
Raises(s) == [raised |-> TRUE, state |-> s]

Invalid(agent) == <<"Invalid state for", agent>>

\* BaseAgent.validate_state
\* A validation that forgets the query
validate_ids_only(state) == {"transaction_id", "session_id"} \subseteq DOMAIN state

validate_state(state) ==
    {"transaction_id", "session_id", "query"} \subseteq DOMAIN state

\* if "errors" not in state: state["errors"] = [] ; state["errors"].append(e)
AppendError(state, e) == Put(state, "errors", Append(Get(state, "errors", <<>>), e))

\* state.setdefault("citations", []).append(c)
AppendCitation(state, c) ==
    Put(state, "citations", Append(Get(state, "citations", <<>>), c))

Ensure(state, k, v) == IF Has(state, k) THEN state ELSE Put(state, k, v)

Counters == {"prompt_tokens", "completion_tokens", "total_tokens"}

\* The usage every completed LLM call reports.
Usage == [prompt_tokens |-> 2, completion_tokens |-> 1, total_tokens |-> 3]
ZeroUsage == [prompt_tokens |-> 0, completion_tokens |-> 0, total_tokens |-> 0]
AddUsage(a, b) ==
    [prompt_tokens |-> a.prompt_tokens + b.prompt_tokens,
     completion_tokens |-> a.completion_tokens + b.completion_tokens,
     total_tokens |-> a.total_tokens + b.total_tokens]

\* TokenTracker.track_llm_call
track_llm_call(state, agent_name) ==
    LET tu == Get(state, "token_usage", EmptyDict)
    IN  Put(state, "token_usage",
            Put(tu, agent_name, AddUsage(Get(tu, agent_name, ZeroUsage), Usage)))

\* What ResearchAgent stores for a symbol whose two fetches succeeded.
ResearchRecord(now) ==
    [price |-> [current_price |-> "p"],
     company_info |-> [name |-> "n"],
     source |-> [isList |-> FALSE, items |-> <<"yahoo_finance">>],
     timestamp |-> now]

PriceCitation(symbol) ==
    [source |-> "Yahoo Finance", symbol |-> symbol, type |-> "price_data"]

\* The for-loop of ResearchAgent.execute; fails: the positions of the symbols
\* list whose fetch raises.
RECURSIVE ResearchLoop(_, _, _, _, _)
ResearchLoop(state, research_data, i, fails, now) ==
    LET symbols == Get(state, "symbols", <<>>)
    IN  IF i > Len(symbols)
        THEN Put(Put(state, "research_data", research_data), "updated_at", now)
        ELSE IF i \in fails
        THEN ResearchLoop(AppendError(state, <<"Failed to fetch data for", symbols[i]>>),
                          research_data, i + 1, fails, now)
        ELSE ResearchLoop(AppendCitation(state, PriceCitation(symbols[i])),
                          Put(research_data, symbols[i], ResearchRecord(now)),
                          i + 1, fails, now)

ResearchExecute(state, fails, now) ==
    IF ~validate_state(state)
    THEN Returned(AppendError(state, Invalid("ResearchAgent")))
    ELSE Returned(ResearchLoop(Ensure(state, "citations", <<>>), EmptyDict, 1, fails, now))

\* The for-loop of AnalystAgent.execute. mode: "llm" the completion succeeds,
\* "fallback" it fails inside _analyze_symbol, "error" _analyze_symbol raises.
RECURSIVE AnalystLoop(_, _, _)
AnalystLoop(state, i, mode) ==
    LET symbols == Get(state, "symbols", <<>>)
    IN  IF i > Len(symbols) THEN state
        ELSE IF ~Has(state["research_data"], symbols[i])
        THEN AnalystLoop(state, i + 1, mode)
        ELSE IF mode = "error"
        THEN AnalystLoop(AppendError(state, <<"Failed to analyze", symbols[i]>>), i + 1, mode)
        ELSE LET tracked == IF mode = "llm" THEN track_llm_call(state, "AnalystAgent")
                            ELSE state
             IN  AnalystLoop(
                    Put(tracked, "analyst_data",
                        Put(tracked["analyst_data"], symbols[i],
                            [symbol |-> symbols[i], by |-> mode])),
                    i + 1, mode)

\* state["errors"].append(e) with no guard: a KeyError when the key is absent.
AppendOrKeyError(state, e) ==
    IF Has(state, "errors")
    THEN Returned(Put(state, "errors", Append(state["errors"], e)))
    ELSE Raises(state)

AnalystExecute(state, mode, now) ==
    IF ~validate_state(state)
    THEN Returned(AppendError(state, Invalid("AnalystAgent")))
    ELSE LET s1 == Ensure(Ensure(state, "analyst_data", EmptyDict), "research_data", EmptyDict)
         IN  IF s1["research_data"] = EmptyDict
             THEN AppendOrKeyError(s1, <<"No research data available for", "analysis">>)
             ELSE Returned(Put(AnalystLoop(s1, 1, mode), "updated_at", now))

FilingCitation(symbol) ==
    [source |-> "SEC EDGAR", symbol |-> symbol, type |-> "filing_data",
     filings_count |-> 1]

\* The for-loop of EdgarAgent.execute. mode: "found", "none" (no filings),
\* "error" (the fetch raises).
RECURSIVE EdgarLoop(_, _, _, _)
EdgarLoop(state, edgar_data, i, mode) ==
    LET symbols == Get(state, "symbols", <<>>)
    IN  IF i > Len(symbols) THEN Put(state, "edgar_data", edgar_data)
        ELSE IF mode = "found"
        THEN EdgarLoop(AppendCitation(state, FilingCitation(symbols[i])),
                       Put(edgar_data, symbols[i], [filings |-> 1]), i + 1, mode)
        ELSE IF mode = "none"
        THEN EdgarLoop(AppendError(state, <<"No EDGAR filings found for", symbols[i]>>),
                       edgar_data, i + 1, mode)
        ELSE EdgarLoop(AppendError(state, <<"Failed to fetch EDGAR data for", symbols[i]>>),
                       edgar_data, i + 1, mode)

EdgarExecute(state, mode, now) ==
    IF ~validate_state(state)
    THEN Returned(AppendError(state, Invalid("EdgarAgent")))
    ELSE IF Get(state, "query", EmptyQuery).edgar = 0 /\ Get(state, "symbols", <<>>) = <<>>
    THEN Returned(state)
    ELSE Returned(EdgarLoop(state, EmptyDict, 1, mode))

\* _benchmark_comparison / _side_by_side_comparison. mode: "llm", "fallback"
\* (the completion fails inside the insight generator).
ComparisonResult(state, mode, now) ==
    LET symbols == Get(state, "symbols", <<>>)
        rd == state["research_data"]
        known == {s \in Range(symbols) : Has(rd, s)}
    IN  IF Len(symbols) < 2
        THEN IF ~Has(rd, symbols[1])
             THEN [error |-> <<"No research data for", symbols[1]>>]
             ELSE [comparison_type |-> "benchmark", symbol |-> symbols[1],
                   insights |-> mode, timestamp |-> now]
        ELSE IF known = {}
             THEN [error |-> <<"No valid metrics extracted for comparison", "">>]
             ELSE [comparison_type |-> "side_by_side", symbols |-> known,
                   insights |-> mode, timestamp |-> now]

\* mode "raise": the metric extraction, which runs outside any try, raises.
ComparisonExecute(state, mode, now) ==
    IF ~validate_state(state)
    THEN Returned(AppendError(state, Invalid("ComparisonAgent")))
    ELSE LET s1 == Ensure(Ensure(Ensure(state, "comparison_data", EmptyDict),
                                 "research_data", EmptyDict), "analyst_data", EmptyDict)
             symbols == Get(s1, "symbols", <<>>)
             result == ComparisonResult(s1, mode, now)
             called == mode = "llm" /\ Has(result, "comparison_type")
             s2 == IF called THEN track_llm_call(s1, "ComparisonAgent") ELSE s1
         IN  IF s1["research_data"] = EmptyDict
             THEN AppendOrKeyError(s1, <<"No research data available for", "comparison">>)
             ELSE IF symbols = <<>> \/ mode = "raise"
             THEN Raises(s1)
             ELSE Returned(Put(Put(s2, "comparison_data", result), "updated_at", now))

\* The for-loop of TrendAgent.execute, modes as for the analyst.
RECURSIVE TrendLoop(_, _, _)
TrendLoop(state, i, mode) ==
    LET symbols == Get(state, "symbols", <<>>)
    IN  IF i > Len(symbols) THEN state
        ELSE IF ~Has(state["research_data"], symbols[i])
        THEN TrendLoop(state, i + 1, mode)
        ELSE IF mode = "error"
        THEN TrendLoop(AppendError(state, <<"Failed to analyze trends for", symbols[i]>>),
                       i + 1, mode)
        ELSE LET tracked == IF mode = "llm" THEN track_llm_call(state, "TrendAgent")
                            ELSE state
             IN  TrendLoop(
                    Put(tracked, "trend_analysis",
                        Put(tracked["trend_analysis"], symbols[i],
                            [symbol |-> symbols[i], by |-> mode])),
                    i + 1, mode)

TrendExecute(state, mode, now) ==
    IF ~validate_state(state)
    THEN Returned(AppendError(state, Invalid("TrendAgent")))
    ELSE LET s1 == Ensure(Ensure(state, "trend_analysis", EmptyDict), "research_data", EmptyDict)
         IN  IF s1["research_data"] = EmptyDict
             THEN AppendOrKeyError(s1, <<"No research data available for", "trend analysis">>)
             ELSE Returned(Put(TrendLoop(s1, 1, mode), "updated_at", now))

\* ReportingAgent.execute. mode: "llm" the report is generated, "error" the
\* generation raises and the fallback report is used.
ReportingExecute(state, mode, now) ==
    IF ~validate_state(state)
    THEN Returned(AppendError(state, Invalid("ReportingAgent")))
    ELSE LET s1 == Ensure(Ensure(Ensure(state, "research_data", EmptyDict),
                                 "analyst_data", EmptyDict), "citations", <<>>)
         IN  IF s1["research_data"] = EmptyDict /\ s1["analyst_data"] = EmptyDict
             THEN AppendOrKeyError(s1, <<"No data available for", "report generation">>)
             ELSE IF mode = "llm"
             THEN Returned(Put(Put(Put(track_llm_call(s1, "ReportingAgent"),
                                       "report", "report"), "summary", "summary"),
                               "updated_at", now))
             ELSE Returned(Put(Put(AppendError(s1, <<"Failed to generate", "report">>),
                                   "report", "fallback report"), "updated_at", now))

-----------------------------------------------------------------------------
(* utils/query_parser.py and utils/query_intent.py : intent classification *)

\* What the language model answers to the parser's prompt: no usable answer
\* (the call raises, or the JSON does not parse), or the parsed JSON.
NoAnswer ==
    [ok |-> FALSE, symbols |-> <<>>, intent_type |-> NoneStr, is_comparison |-> FALSE,
     is_trend |-> FALSE, is_edgar |-> FALSE, is_comprehensive |-> FALSE,
     is_metric_query |-> FALSE]

\* The call of the query parser raises.
ParserRaises == [NoAnswer EXCEPT !.intent_type = "Exception"]

ParserFlags(c, t, e, k, m, n) ==
    [is_comparison |-> c, is_trend |-> t, is_edgar |-> e, is_comprehensive |-> k,
     is_metric_query |-> m, is_single_entity |-> n = 1, is_multi_entity |-> n > 1]

\* QueryParser._empty_result
empty_result ==
    [symbols |-> <<>>, intent_type |-> "analysis",
     intent_flags |-> ParserFlags(FALSE, FALSE, FALSE, FALSE, FALSE, 0)]

\* QueryParser._regex_parse
regex_parse(query) ==
    LET symbols == query.syms
        is_comparison == Len(symbols) > 1 \/ query.cmp = 2
        is_trend == query.trend = 2
        is_edgar == query.edgar = 2
        is_comprehensive == query.compr = 2
        intent_type ==
            IF is_edgar THEN "filing_analysis"
            ELSE IF is_comparison
                 THEN (IF is_comprehensive THEN "comprehensive_comparison" ELSE "comparison")
            ELSE IF is_trend
                 THEN (IF is_comprehensive THEN "comprehensive_trend" ELSE "trend")
            ELSE IF is_comprehensive THEN "comprehensive_analysis"
            ELSE IF query.metric THEN "metric"
            ELSE "analysis"
    IN  [symbols |-> symbols, intent_type |-> intent_type,
         intent_flags |-> ParserFlags(is_comparison, is_trend, is_edgar, is_comprehensive,
                                      query.metric, Len(symbols))]

\* QueryParser._llm_parse on an answer that parsed
llm_parse(answer) ==
    [symbols |-> answer.symbols, intent_type |-> answer.intent_type,
     intent_flags |-> ParserFlags(answer.is_comparison, answer.is_trend, answer.is_edgar,
                                  answer.is_comprehensive, answer.is_metric_query,
                                  Len(answer.symbols))]

\* QueryParser.parse
parse(query, answer) ==
    IF query.blank THEN empty_result
    ELSE IF answer.ok /\ answer.symbols # <<>> THEN llm_parse(answer)
    ELSE regex_parse(query)

\* QueryIntentClassifier._determine_query_type
determine_query_type(intent_flags, symbols) ==
    IF intent_flags["is_edgar"] THEN "filing_analysis"
    ELSE IF intent_flags["is_comparison"] \/ Len(symbols) > 1
         THEN (IF intent_flags["is_comprehensive"] THEN "comprehensive_comparison"
               ELSE "comparison")
    ELSE IF intent_flags["is_trend"]
         THEN (IF intent_flags["is_comprehensive"] THEN "comprehensive_trend" ELSE "trend")
    ELSE IF intent_flags["is_comprehensive"] THEN "comprehensive_analysis"
    ELSE "single_entity"

\* The rule-based pass of QueryIntentClassifier.classify
rule_flags(query, symbols) ==
    [is_comparison |-> Len(symbols) > 1 \/ query.cmp >= 1,
     is_trend |-> query.trend >= 1,
     is_edgar |-> query.edgar = 2,
     is_comprehensive |-> query.compr >= 1,
     is_single_entity |-> Len(symbols) = 1,
     is_multi_entity |-> Len(symbols) > 1]

\* A classifier that takes a raising parser call for an empty parse
classify_without_fallback(query, given, answer1, answer2) ==
    LET symbols == IF given # <<>> THEN given
                   ELSE IF answer1 = ParserRaises THEN <<>>
                   ELSE parse(query, answer1).symbols
        parsed == IF answer2 = ParserRaises THEN empty_result ELSE parse(query, answer2)
        intent_flags == dict_merge_reducer(rule_flags(query, symbols), parsed.intent_flags)
    IN  [query_type |-> parsed.intent_type, intent_flags |-> intent_flags,
         symbols |-> symbols]

\* QueryIntentClassifier.classify with a query parser and a language-model
\* client, as the workflow constructs it.  answer1, answer2: what the model
\* answers to the first and to the second parse; _llm_classify returns {}.
\* A parser call that raises is caught: the first leaves symbols = [], the
\* second leaves the rule-based flags and their query type.
classify(query, given, answer1, answer2) ==
    LET symbols == IF given # <<>> THEN given
                   ELSE IF answer1 = ParserRaises THEN <<>>
                   ELSE parse(query, answer1).symbols
        parsed == parse(query, answer2)
        intent_flags == IF answer2 = ParserRaises THEN rule_flags(query, symbols)
                        ELSE dict_merge_reducer(rule_flags(query, symbols),
                                                parsed.intent_flags)
        query_type == IF answer2 # ParserRaises /\ parsed.intent_type \notin {NoneStr, ""}
                      THEN parsed.intent_type
                      ELSE determine_query_type(intent_flags, symbols)
    IN  [query_type |-> query_type, intent_flags |-> intent_flags, symbols |-> symbols]

\* QueryIntentClassifier.should_use_comparison_agent
should_use_comparison_agent(classification) ==
    LET intent_flags == Get(classification, "intent_flags", EmptyDict)
    IN  \/ Get(intent_flags, "is_comparison", FALSE)
        \/ Get(intent_flags, "is_multi_entity", FALSE)
        \/ Get(classification, "query_type", NoneStr)
              \in {"comparison", "comprehensive_comparison"}

\* QueryIntentClassifier.should_use_trend_agent
should_use_trend_agent(classification) ==
    LET intent_flags == Get(classification, "intent_flags", EmptyDict)
    IN  \/ Get(intent_flags, "is_trend", FALSE)
        \/ Get(classification, "query_type", NoneStr)
              \in {"trend", "comprehensive_trend", "comprehensive_analysis"}

-----------------------------------------------------------------------------
(* utils/context_merger.py *)

Truthy(v) == v # ""

\* ContextMerger._merge_symbol_data (new["source"] a string, as the agent writes it)
merge_symbol_data(existing, new) ==
    LET price ==
            IF Has(new, "price") /\ Has(existing, "price")
            THEN (IF Cardinality(DOMAIN new["price"]) > Cardinality(DOMAIN existing["price"])
                  THEN Put(existing, "price", new["price"]) ELSE existing)
            ELSE IF Has(new, "price") THEN Put(existing, "price", new["price"])
            ELSE existing
        info ==
            IF Has(new, "company_info") /\ Has(existing, "company_info")
            THEN LET e == existing["company_info"]
                     n == new["company_info"]
                 IN  Put(price, "company_info",
                         [k \in (DOMAIN e) \cup (DOMAIN n) |->
                            IF k \in DOMAIN n /\ Truthy(n[k])
                               /\ (k \notin DOMAIN e \/ ~Truthy(e[k]))
                            THEN n[k] ELSE e[k]])
            ELSE IF Has(new, "company_info") THEN Put(price, "company_info", new["company_info"])
            ELSE price
        stamped ==
            IF Has(new, "timestamp") THEN Put(info, "timestamp", new["timestamp"]) ELSE info
        item == new["source"].items[1]
    IN  IF ~Has(new, "source") THEN stamped
        ELSE IF ~Has(existing, "source") THEN Put(stamped, "source", new["source"])
        ELSE IF existing["source"].isList
        THEN (IF Contains(existing["source"].items, item) THEN stamped
              ELSE Put(stamped, "source",
                       [isList |-> TRUE, items |-> Append(existing["source"].items, item)]))
        ELSE Put(stamped, "source",
                 [isList |-> TRUE, items |-> <<existing["source"].items[1], item>>])

RECURSIVE MergeBySymbol(_, _, _)
MergeBySymbol(states, field, merged) ==
    IF states = <<>> THEN merged
    ELSE LET data == Get(Head(states), field, EmptyDict)
         IN  MergeBySymbol(Tail(states), field,
                [s \in (DOMAIN merged) \cup (DOMAIN data) |->
                    IF s \notin DOMAIN data THEN merged[s]
                    ELSE IF s \notin DOMAIN merged THEN data[s]
                    ELSE merge_symbol_data(merged[s], data[s])])

\* A merge of research data that keeps the data of the last state only
merge_research_data_last(states) ==
    IF states = <<>> THEN EmptyDict
    ELSE Get(states[Len(states)], "research_data", EmptyDict)

\* ContextMerger.merge_research_data
merge_research_data(states) == MergeBySymbol(states, "research_data", EmptyDict)

RECURSIVE Chain(_, _)
Chain(states, field) ==
    IF states = <<>> THEN <<>>
    ELSE Get(Head(states), field, <<>>) \o Chain(Tail(states), field)

CitationKey(c) ==
    <<Get(c, "source", ""), Get(c, "symbol", ""), Get(c, "type", "")>>

RECURSIVE UniqueByKey(_, _)
UniqueByKey(items, kept) ==
    IF items = <<>> THEN kept
    ELSE UniqueByKey(Tail(items),
            IF \E i \in 1..Len(kept) : CitationKey(kept[i]) = CitationKey(Head(items))
            THEN kept ELSE Append(kept, Head(items)))

\* ContextMerger.merge_citations
merge_citations(states) == UniqueByKey(Chain(states, "citations"), <<>>)

\* ContextMerger.merge_errors
merge_errors(states) == ExtendNew(<<>>, Chain(states, "errors"))

\* len(s) of a str: a text is the sequence of its characters
Chars(text) == Len(text)

\* len(k) of the keys the result dicts carry
KeyLen(k) ==
    CASE k = "insights" -> 8
      [] k = "metrics" -> 7
      [] k = "symbols" -> 7
      [] k = "trend" -> 5
      [] OTHER -> 6

RECURSIVE ItemsLen(_, _)
ItemsLen(d, keys) ==
    IF keys = {} THEN 0
    ELSE LET k == CHOOSE x \in keys : TRUE
         IN  (KeyLen(k) + 2) + 2 + (Chars(d[k]) + 2) + ItemsLen(d, keys \ {k})

\* len(str(d)) of a dict of str to str: "{" "'k': 'v'" joined by ", " "}"
StrLen(d) ==
    IF DOMAIN d = {} THEN 2
    ELSE 2 + ItemsLen(d, DOMAIN d) + 2 * (Cardinality(DOMAIN d) - 1)

\* what the two loops below compare: len(data.get("raw_content", "")) for the
\* analyst data, len(str(analysis)) for the trend analysis
SizeIn(field, data) ==
    IF field = "analyst_data" THEN Chars(Get(data, "raw_content", <<>>))
    ELSE StrLen(data)

\* the loops of merge_analyst_data and merge_trend_analysis: the first value
\* of a symbol is kept unless a later one is strictly larger
RECURSIVE MergeByLarger(_, _, _)
MergeByLarger(states, field, merged) ==
    IF states = <<>> THEN merged
    ELSE LET data == Get(Head(states), field, EmptyDict)
         IN  MergeByLarger(Tail(states), field,
                [s \in (DOMAIN merged) \cup (DOMAIN data) |->
                    IF s \notin DOMAIN data THEN merged[s]
                    ELSE IF s \notin DOMAIN merged THEN data[s]
                    ELSE IF SizeIn(field, data[s]) > SizeIn(field, merged[s]) THEN data[s]
                    ELSE merged[s]])

\* ContextMerger.merge_analyst_data
merge_analyst_data(states) == MergeByLarger(states, "analyst_data", EmptyDict)

\* ContextMerger.merge_trend_analysis
merge_trend_analysis(states) == MergeByLarger(states, "trend_analysis", EmptyDict)

RECURSIVE LargestComparison(_, _)
LargestComparison(states, merged) ==
    IF states = <<>> THEN merged
    ELSE LET comparison_data == Get(Head(states), "comparison_data", EmptyDict)
         IN  LargestComparison(Tail(states),
                IF comparison_data # EmptyDict
                   /\ (merged = EmptyDict \/ StrLen(comparison_data) > StrLen(merged))
                THEN comparison_data ELSE merged)

\* ContextMerger.merge_comparison_data
merge_comparison_data(states) == LargestComparison(states, EmptyDict)

\* merged[agent_name][c] += usage.get(c, 0)
AddCounters(sums, usage) == [c \in Counters |-> sums[c] + Get(usage, c, 0)]

\* A merge of token usage in which a later state's counters replace an
\* earlier state's
RECURSIVE merge_token_usage_last(_)
merge_token_usage_last(states) ==
    IF states = <<>> THEN EmptyDict
    ELSE dict_merge_reducer(merge_token_usage_last(SubSeq(states, 1, Len(states) - 1)),
                            Get(states[Len(states)], "token_usage", EmptyDict))

RECURSIVE merge_token_usage(_)
\* ContextMerger.merge_token_usage
merge_token_usage(states) ==
    IF states = <<>> THEN EmptyDict
    ELSE LET rest == merge_token_usage(SubSeq(states, 1, Len(states) - 1))
             token_usage == Get(states[Len(states)], "token_usage", EmptyDict)
         IN  [a \in (DOMAIN rest) \cup (DOMAIN token_usage) |->
                AddCounters(Get(rest, a, ZeroUsage), Get(token_usage, a, EmptyDict))]

\* ContextMerger.merge_parallel_agent_outputs
merge_parallel_agent_outputs(comparison_state, trend_state) ==
    LET both == <<comparison_state, trend_state>>
        m1 == IF Has(trend_state, "comparison_data")
              THEN Put(comparison_state, "comparison_data", trend_state["comparison_data"])
              ELSE comparison_state
        m2 == IF Has(trend_state, "trend_analysis")
              THEN Put(m1, "trend_analysis", trend_state["trend_analysis"])
              ELSE m1
    IN  Put(Put(Put(m2, "citations", merge_citations(both)),
                "errors", merge_errors(both)),
            "token_usage", merge_token_usage(both))

-----------------------------------------------------------------------------
(* orchestrator/workflow.py : the graph *)

END == "__end__"

ResearchNode(c) == IF c.enable_parallel THEN "research_parallel" ELSE "research"

HasRouting(c) == c.enable_conditional /\ (c.comparison_agent \/ c.trend_agent)

\* MyFinGPTWorkflow._build_graph : the add_node calls
Nodes(c) ==
    {ResearchNode(c)}
    \cup (IF c.edgar_agent THEN {"edgar"} ELSE {})
    \cup (IF c.analyst_agent THEN {"analyst"} ELSE {})
    \cup (IF c.comparison_agent THEN {"comparison"} ELSE {})
    \cup (IF c.trend_agent THEN {"trend"} ELSE {})
    \cup (IF HasRouting(c) THEN {"route_advanced"} ELSE {})
    \cup (IF c.reporting_agent THEN {"reporting"} ELSE {})

\* MyFinGPTWorkflow._build_edges : the node the edgar stage leaves behind it
after_research(c) == IF c.edgar_agent THEN "edgar" ELSE ResearchNode(c)

\* MyFinGPTWorkflow._build_edges : the node the analyst stage leaves behind it
after_analyst(c) == IF c.analyst_agent THEN "analyst" ELSE after_research(c)

\* A graph whose analyst stage hangs off the research node, beside edgar
LinearEdgesFlat(c) ==
    (IF c.edgar_agent THEN {<<ResearchNode(c), "edgar">>} ELSE {})
    \cup (IF c.analyst_agent THEN {<<ResearchNode(c), "analyst">>} ELSE {})

\* research -> edgar -> analyst
LinearEdges(c) ==
    (IF c.edgar_agent THEN {<<ResearchNode(c), "edgar">>} ELSE {})
    \cup (IF c.analyst_agent THEN {<<after_research(c), "analyst">>} ELSE {})

\* A graph whose routing node hangs off the stage before the analyst
RoutingEdgesEarly(c) ==
    {<<after_research(c), "route_advanced">>}
    \cup (IF c.comparison_agent
          THEN {<<"route_advanced", "comparison">>, <<"comparison", "reporting">>}
          ELSE {})
    \cup (IF c.trend_agent
          THEN {<<"route_advanced", "trend">>, <<"trend", "reporting">>}
          ELSE {})

\* the edges into and out of route_advanced, comparison and trend
RoutingEdges(c) ==
    {<<after_analyst(c), "route_advanced">>}
    \cup (IF c.comparison_agent /\ c.trend_agent
          THEN {<<"route_advanced", "comparison">>,
                <<"route_advanced", "trend">>,
                <<"comparison", "reporting">>,
                <<"trend", "reporting">>}
          ELSE IF c.comparison_agent
          THEN {<<"route_advanced", "comparison">>,
                <<"comparison", "reporting">>}
          ELSE {<<"route_advanced", "trend">>,
                <<"trend", "reporting">>})

\* MyFinGPTWorkflow._build_edges : the add_edge calls
Edges(c) ==
    LinearEdges(c)
    \cup (IF HasRouting(c) THEN RoutingEdges(c)
          ELSE IF c.reporting_agent THEN {<<after_analyst(c), "reporting">>}
          ELSE {<<after_analyst(c), END>>})
    \cup (IF c.reporting_agent THEN {<<"reporting", END>>} ELSE {})

\* workflow.compile() : every edge joins nodes that were added (or END)
Compiles(c) ==
    \A e \in Edges(c) : e[1] \in Nodes(c) /\ e[2] \in Nodes(c) \cup {END}

\* The nodes the completion of the given nodes triggers: a node runs in the
\* step after the one in which any of its predecessors ran, once per step.
Successors(c, done) ==
    {e[2] : e \in {x \in Edges(c) : x[1] \in done}} \ {END}

\* A routing node that classifies whatever the state holds
route_always_classifies(state, answer1, answer2) ==
    LET symbols == Get(state, "symbols", <<>>)
        classification == classify(Get(state, "query", EmptyQuery), symbols,
                                   answer1, answer2)
        s1 == Put(Put(state, "query_type", classification.query_type),
                  "intent_flags", classification.intent_flags)
    IN  IF classification.symbols # <<>> /\ symbols = <<>>
        THEN Put(s1, "symbols", classification.symbols)
        ELSE s1

\* MyFinGPTWorkflow._route_advanced_agents
route_advanced_agents(state, answer1, answer2) ==
    IF Has(state, "query_type") /\ state["query_type"] \notin {NoneStr, ""}
       /\ Has(state, "intent_flags")
    THEN state
    ELSE LET symbols == Get(state, "symbols", <<>>)
             classification == classify(Get(state, "query", EmptyQuery), symbols,
                                        answer1, answer2)
             s1 == Put(Put(state, "query_type", classification.query_type),
                       "intent_flags", classification.intent_flags)
         IN  IF classification.symbols # <<>> /\ symbols = <<>>
             THEN Put(s1, "symbols", classification.symbols)
             ELSE s1

-----------------------------------------------------------------------------
(* The inputs of the model *)

Booleans == {TRUE, FALSE}

Configs ==
    [enable_parallel : Booleans, enable_conditional : Booleans,
     edgar_agent : Booleans, analyst_agent : Booleans, comparison_agent : Booleans,
     trend_agent : Booleans, reporting_agent : Booleans]

\* Symbol lists up to renaming of the tickers: the first one is AAPL.
SymbolLists ==
    {s \in UNION {[1..n -> Syms] : n \in 0..MaxSymbols} : s = <<>> \/ s[1] = "AAPL"}

Queries ==
    {PlainQuery,
     [PlainQuery EXCEPT !.cmp = 2, !.trend = 1, !.syms = <<"AAPL">>]}

Answers ==
    {NoAnswer,
     [NoAnswer EXCEPT !.ok = TRUE, !.symbols = <<"MSFT">>, !.intent_type = "analysis"]}

\* Error messages, as pairs
ErrorTexts == {<<"Failed to fetch data for", "AAPL">>, <<"Failed to analyze", "AAPL">>}

\* Citations: two of one (source, symbol, type) with different other
\* attributes, and one of another symbol
Citations ==
    {FilingCitation("AAPL"),
     [FilingCitation("AAPL") EXCEPT !.filings_count = 2],
     PriceCitation("MSFT")}

\* token_usage dicts: counters per agent name, a counter possibly missing
TokenUsages ==
    {EmptyDict,
     [AnalystAgent |-> Usage],
     [AnalystAgent |-> [prompt_tokens |-> 1, completion_tokens |-> 1, total_tokens |-> 2],
      TrendAgent |-> Usage],
     [AnalystAgent |-> [total_tokens |-> 5]]}

AnalystModes == {"llm", "error"}
EdgarModes == {"found", "none"}
ComparisonModes == {"llm", "raise"}
TrendModes == {"llm", "error"}
ReportingModes == {"llm", "error"}

\* The state the API router builds (api/routers/agents.py), classified by the
\* parser beforehand or not.
ApiState(symbols, query, pre) ==
    [transaction_id |-> "txn", session_id |-> "sess", query |-> query,
     symbols |-> symbols, research_data |-> EmptyDict, analyst_data |-> EmptyDict,
     report |-> NoneStr, edgar_data |-> EmptyDict, comparison_data |-> EmptyDict,
     trend_analysis |-> EmptyDict,
     query_type |-> IF pre THEN regex_parse(query).intent_type ELSE NoneStr,
     intent_flags |-> IF pre THEN regex_parse(query).intent_flags ELSE EmptyDict,
     entities |-> EmptyDict, errors |-> <<>>, token_usage |-> EmptyDict,
     citations |-> <<>>, created_at |-> 1, updated_at |-> 1]

\* A caller's state that holds the required fields and the symbols only.
BareState(symbols, query) ==
    [transaction_id |-> "txn", session_id |-> "sess", query |-> query,
     symbols |-> symbols]

InputStates ==
    {Drop(s, missing) :
        s \in {ApiState(y, q, pre) : y \in SymbolLists, q \in Queries, pre \in Booleans},
        missing \in {{}, {"query"}}}
    \cup
    {Drop(s, missing) :
        s \in {BareState(y, q) : y \in SymbolLists, q \in Queries},
        missing \in {{}} \cup {{f} : f \in StrFields}}

-----------------------------------------------------------------------------
(* MyFinGPTWorkflow.execute : graph.invoke(state) *)

NoLoop == [active |-> FALSE]
NoStep == [state |-> EmptyDict, writes |-> <<>>]
NoMerge == [by |-> "none"]
NoCall == [op |-> "none"]
NoTracker == 0
NoRet == [returned |-> FALSE]

\* No execute() call with a tracker is under way
NoTracking ==
    /\ progress_tracker = NoTracker
    /\ trackers = <<>>
    /\ executions = <<>>

Init ==
    /\ cfg \in Configs
    /\ status = "idle"
    /\ input = EmptyDict
    /\ chan = EmptyDict
    /\ pending = {}
    /\ outbox = <<>>
    /\ prev = NoStep
    /\ log = <<>>
    /\ clock = 2
    /\ rp = NoLoop
    /\ branches = <<>>
    /\ merges = NoMerge
    /\ call = NoCall
    /\ ret = NoRet
    /\ NoTracking

Execute ==
    /\ status = "idle"
    /\ Compiles(cfg)
    /\ \E state \in InputStates :
        /\ input' = state
        /\ chan' = ApplyUpdate(EmptyDict, state)
    /\ status' = "running"
    /\ pending' = {ResearchNode(cfg)}
    /\ UNCHANGED <<cfg, outbox, prev, log, clock, rp, mergeVars, callVars, trackVars>>

\* An executor without the step barrier: a node's returned state is written
\* and its successors triggered as soon as it ends.
CompleteEager(node, returned) ==
    LET next == (pending \ {node}) \cup Successors(cfg, {node})
    IN  /\ chan' = ApplyWrites(chan, <<<<node, returned>>>>)
        /\ prev' = [state |-> chan, writes |-> <<<<node, returned>>>>]
        /\ pending' = next
        /\ outbox' = <<>>
        /\ status' = IF next = {} THEN "done" ELSE "running"

\* The end of a node: its returned state joins those of the step; when it is
\* the last node of the step, the returned states go through the reducers in
\* the order the nodes completed, and the next nodes are triggered.
Complete(node, returned) ==
    LET writes == Append(outbox, <<node, returned>>)
        next == Successors(cfg, {writes[i][1] : i \in 1..Len(writes)})
    IN  IF pending \ {node} # {}
        THEN /\ pending' = pending \ {node}
             /\ outbox' = writes
             /\ UNCHANGED <<status, chan, prev>>
        ELSE /\ chan' = ApplyWrites(chan, writes)
             /\ prev' = [state |-> chan, writes |-> writes]
             /\ pending' = next
             /\ outbox' = <<>>
             /\ status' = IF next = {} THEN "done" ELSE "running"

\* A node wrapper around an agent: the agent's returned state is the node's
\* update; an exception is re-raised and leaves execute().
Finish(node, result) ==
    /\ log' = Append(log, node)
    /\ clock' = clock + 1
    /\ IF result.raised
       THEN /\ status' = "raised"
            /\ pending' = {}
            /\ UNCHANGED <<chan, outbox, prev>>
       ELSE Complete(node, result.state)
    /\ UNCHANGED <<cfg, input, mergeVars, callVars, trackVars>>

Ready(node) == status = "running" /\ node \in pending /\ ~rp.active

\* _research_node
Research ==
    /\ Ready("research")
    /\ \E fails \in SUBSET (1..Len(Get(chan, "symbols", <<>>))) :
         Finish("research", ResearchExecute(chan, fails, clock))
    /\ UNCHANGED rp

\* _research_parallel_node, len(symbols) <= 1
ResearchParallelSingle ==
    /\ Ready("research_parallel")
    /\ Len(Get(chan, "symbols", <<>>)) <= 1
    /\ \E fails \in SUBSET (1..Len(Get(chan, "symbols", <<>>))) :
         Finish("research_parallel", ResearchExecute(chan, fails, clock))
    /\ UNCHANGED rp

\* _research_parallel_node, entering the per-symbol loop
ResearchParallelStart ==
    /\ Ready("research_parallel")
    /\ Len(Get(chan, "symbols", <<>>)) > 1
    /\ rp' = [active |-> TRUE, entry |-> chan, state |-> chan, i |-> 1, results |-> <<>>]
    /\ log' = Append(log, "research_parallel")
    /\ UNCHANGED <<cfg, status, input, chan, pending, outbox, prev, clock, mergeVars, callVars, trackVars>>

\* One turn of the loop: symbol_state = state.copy() is a shallow copy, so a
\* list the state holds is the same object in the copy, and the agent's
\* appends to it are made to that one object.
ResearchBranch ==
    /\ rp.active
    /\ rp.i <= Len(rp.state["symbols"])
    /\ \E failed \in Booleans :
        LET symbol_state == Put(rp.state, "symbols", <<rp.state["symbols"][rp.i]>>)
            result == ResearchExecute(symbol_state, IF failed THEN {1} ELSE {}, clock).state
            errShared == Has(rp.state, "errors")
            citShared == Has(rp.state, "citations")
            s1 == IF errShared THEN Put(rp.state, "errors", result["errors"]) ELSE rp.state
            s2 == IF citShared THEN Put(s1, "citations", result["citations"]) ELSE s1
        IN  rp' = [rp EXCEPT !.state = s2, !.i = rp.i + 1,
                             !.results = Append(rp.results,
                                [state |-> result, errShared |-> errShared,
                                 citShared |-> citShared])]
    /\ clock' = clock + 1
    /\ UNCHANGED <<cfg, status, input, chan, pending, outbox, prev, log, mergeVars, callVars, trackVars>>

\* What a result of the loop reads now: its own keys, and the shared lists as
\* they are now.
Deref(r) ==
    LET s1 == IF r.errShared THEN Put(r.state, "errors", rp.state["errors"]) ELSE r.state
    IN  IF r.citShared THEN Put(s1, "citations", rp.state["citations"]) ELSE s1

\* The merge that ends the loop
ResearchMerge ==
    /\ rp.active
    /\ rp.i > Len(rp.state["symbols"])
    /\ LET results == [j \in 1..Len(rp.results) |-> Deref(rp.results[j])]
           mergedstate ==
               Put(Put(Put(Put(rp.state,
                   "research_data", merge_research_data(results)),
                   "citations", merge_citations(results)),
                   "errors", merge_errors(results)),
                   "token_usage", merge_token_usage(results))
       IN  Complete("research_parallel", mergedstate)
    /\ rp' = NoLoop
    /\ UNCHANGED <<cfg, input, log, clock, mergeVars, callVars, trackVars>>

\* _edgar_node
Edgar ==
    /\ Ready("edgar")
    /\ \E mode \in EdgarModes : Finish("edgar", EdgarExecute(chan, mode, clock))
    /\ UNCHANGED rp

\* _analyst_node
Analyst ==
    /\ Ready("analyst")
    /\ \E mode \in AnalystModes : Finish("analyst", AnalystExecute(chan, mode, clock))
    /\ UNCHANGED rp

\* _route_advanced_agents as a node
Route ==
    /\ Ready("route_advanced")
    /\ \E answer1 \in Answers, answer2 \in Answers :
         Finish("route_advanced", Returned(route_advanced_agents(chan, answer1, answer2)))
    /\ UNCHANGED rp

\* _comparison_node
Comparison ==
    /\ Ready("comparison")
    /\ \E mode \in ComparisonModes :
         Finish("comparison", ComparisonExecute(chan, mode, clock))
    /\ UNCHANGED rp

\* _trend_node
Trend ==
    /\ Ready("trend")
    /\ \E mode \in TrendModes : Finish("trend", TrendExecute(chan, mode, clock))
    /\ UNCHANGED rp

\* _reporting_node
Reporting ==
    /\ Ready("reporting")
    /\ \E mode \in ReportingModes :
         Finish("reporting", ReportingExecute(chan, mode, clock))
    /\ UNCHANGED rp

Next ==
    \/ Execute
    \/ Research
    \/ ResearchParallelSingle
    \/ ResearchParallelStart
    \/ ResearchBranch
    \/ ResearchMerge
    \/ Edgar
    \/ Analyst
    \/ Route
    \/ Comparison
    \/ Trend
    \/ Reporting

Spec == Init /\ [][Next]_vars

-----------------------------------------------------------------------------
(* The merge of two branch states, by the reducers of the graph state and by *)
(* the ContextMerger, each in both orders                                    *)

KeyedFields == {"research_data", "analyst_data", "comparison_data", "trend_analysis"}

Texts == {<<"b", "u", "y">>, <<"h", "o", "l", "d">>}

ComparisonDatas ==
    {EmptyDict, [metrics |-> <<"1">>], [symbols |-> <<"2">>],
     [insights |-> <<"o", "k">>]}

\* What a branch returns: data for some symbols, and a comparison result.
BranchStates ==
    {[research_data |-> [s \in held |-> ResearchRecord(1)],
      analyst_data |-> [s \in held |-> [raw_content |-> text]],
      trend_analysis |-> [s \in held |-> [trend |-> text]],
      comparison_data |-> comparison_data] :
        held \in SUBSET Syms, text \in Texts, comparison_data \in ComparisonDatas}

Fields(state) == [f \in KeyedFields |-> state[f]]

MergeInit ==
    /\ cfg = CHOOSE c \in Configs : TRUE
    /\ status = "idle"
    /\ input = EmptyDict
    /\ chan = EmptyDict
    /\ pending = {}
    /\ outbox = <<>>
    /\ prev = NoStep
    /\ log = <<>>
    /\ clock = 2
    /\ rp = NoLoop
    /\ branches \in {<<a, b>> : a \in BranchStates, b \in BranchStates}
    /\ merges = NoMerge
    /\ call = NoCall
    /\ ret = NoRet
    /\ NoTracking

\* The branches written to the graph state one after the other
ReducerMerge ==
    /\ merges = NoMerge
    /\ merges' =
         [by |-> "reducers",
          ab |-> Fields(ApplyUpdate(ApplyUpdate(EmptyDict, branches[1]), branches[2])),
          ba |-> Fields(ApplyUpdate(ApplyUpdate(EmptyDict, branches[2]), branches[1]))]
    /\ UNCHANGED <<flowVars, branches, callVars, trackVars>>

ContextMerge(states) ==
    [research_data |-> merge_research_data(states),
     analyst_data |-> merge_analyst_data(states),
     comparison_data |-> merge_comparison_data(states),
     trend_analysis |-> merge_trend_analysis(states)]

\* The branches handed to the ContextMerger
MergerMerge ==
    /\ merges = NoMerge
    /\ merges' =
         [by |-> "ContextMerger",
          ab |-> ContextMerge(<<branches[1], branches[2]>>),
          ba |-> ContextMerge(<<branches[2], branches[1]>>)]
    /\ UNCHANGED <<flowVars, branches, callVars, trackVars>>

MergeNext ==
    \/ ReducerMerge
    \/ MergerMerge

MergeSpec == MergeInit /\ [][MergeNext]_vars

-----------------------------------------------------------------------------
(* Single calls of the reducers, of the ContextMerger's list and counter     *)
(* merges, of the classifier and of the routing node, on arguments drawn     *)
(* from bounded sets                                                         *)

ErrorLists ==
    {<<>>} \cup {<<e>> : e \in ErrorTexts}
    \cup {<<e, f>> : e \in ErrorTexts, f \in ErrorTexts}

CitationLists ==
    {<<>>} \cup {<<c>> : c \in Citations}
    \cup {<<c, d>> : c \in Citations, d \in Citations}

\* The values a declared field is given in the calls.
Values(k) ==
    CASE k = "query" -> {EmptyQuery, PlainQuery}
      [] k \in StrFields \ {"query"} -> {"", "id"}
      [] k = "symbols" -> SymbolLists
      [] k \in {"created_at", "updated_at"} -> {NoTime, 1, 2}
      [] k = "token_usage" -> TokenUsages
      [] k \in DictFields \ {"token_usage"} ->
            {EmptyDict, [AAPL |-> "a"], [AAPL |-> "b", MSFT |-> "c"]}
      [] k \in OptFields -> {NoneStr, "", "text"}
      [] k = "errors" -> ErrorLists
      [] k = "citations" -> CitationLists

ReducerCalls(k) ==
    {[op |-> "reduce", field |-> k, left |-> x, right |-> y] :
        x \in Values(k), y \in Values(k)}

\* Lists of one to MaxStates states, each from a set of states
StateLists(states) == UNION {[1..n -> states] : n \in 1..MaxStates}

TokenUsageStates == {EmptyDict} \cup {[token_usage |-> u] : u \in TokenUsages}

Levels == {0, 1, 2}

\* Queries by what the keyword tests see of them
ClassifiedQueries ==
    {EmptyQuery} \cup
    {[blank |-> FALSE, cmp |-> c, trend |-> t, edgar |-> e, compr |-> k,
      metric |-> m, syms |-> y] :
        c \in Levels, t \in Levels, e \in {0, 2}, k \in Levels, m \in Booleans,
        y \in {<<>>, <<"AAPL">>, <<"AAPL", "MSFT">>}}

\* What a call of the parser meets: no usable answer of the language model,
\* an exception, or an answer that parses
ParserOutcomes ==
    {NoAnswer, ParserRaises,
     [NoAnswer EXCEPT !.ok = TRUE, !.symbols = <<"AAPL", "MSFT">>,
                      !.intent_type = "comparison", !.is_comparison = TRUE],
     [NoAnswer EXCEPT !.ok = TRUE, !.symbols = <<"MSFT">>, !.intent_type = "comparison"],
     [NoAnswer EXCEPT !.ok = TRUE, !.symbols = <<"MSFT">>, !.is_trend = TRUE]}

GivenSymbols == {<<>>, <<"AAPL">>, <<"AAPL", "MSFT">>}

\* States the routing node is handed
RoutedStates ==
    {Drop([query |-> q, symbols |-> y, query_type |-> qt, intent_flags |-> f,
           errors |-> <<>>], missing) :
        q \in Queries, y \in {<<>>, <<"AAPL">>},
        qt \in {NoneStr, "", "comparison"},
        f \in {EmptyDict, rule_flags(PlainQuery, <<"AAPL">>)},
        missing \in {{}, {"query_type"}, {"intent_flags"}}}

\* What two research runs may hold for one symbol: price data with one or two
\* fields, a company name found or not
ResearchEntries ==
    {[price |-> price, company_info |-> [name |-> name],
      source |-> [isList |-> FALSE, items |-> <<"yahoo_finance">>],
      timestamp |-> now] :
        price \in {[current_price |-> "p"], [current_price |-> "q"],
                   [current_price |-> "p", volume |-> "v"]},
        name \in {"", "n"}, now \in {1, 2}}

\* Analyses of one symbol, two of them of one length
AnalystEntries ==
    {[raw_content |-> text] : text \in Texts \cup {<<"s", "e", "l", "l">>}}

\* An earlier and a later state that hold an entry for the same symbol
EntryPairs(field, entries) ==
    {<<[x \in {field} |-> [AAPL |-> a]], [x \in {field} |-> [AAPL |-> b]]>> :
        a \in entries, b \in entries}

\* The state the comparison and the trend stage both start from: the state of
\* the API router or a caller's bare state, after the research stage
ResearchedStates ==
    {ResearchExecute(s, {}, 2).state :
        s \in {ApiState(y, PlainQuery, FALSE) : y \in SymbolLists \ {<<>>}}
              \cup {BareState(y, PlainQuery) : y \in SymbolLists \ {<<>>}}}

\* What the two stages return from one such state
ParallelOutputs ==
    {[op |-> "merge_parallel_agent_outputs",
      comparison_state |-> ComparisonExecute(s, "llm", 3).state,
      trend_state |-> TrendExecute(s, mode, 3).state] :
        s \in ResearchedStates, mode \in TrendModes}

CitationStates == {EmptyDict} \cup {[citations |-> l] : l \in CitationLists}

IsCall ==
    \/ \E k \in AgentState : call \in ReducerCalls(k)
    \/ call \in {[op |-> "merge_token_usage", states |-> s] :
                    s \in StateLists(TokenUsageStates)}
    \/ call \in {[op |-> "merge_citations", states |-> s] :
                    s \in StateLists(CitationStates)}
    \/ call \in {[op |-> "merge_research_data", states |-> s] :
                    s \in EntryPairs("research_data", ResearchEntries)}
    \/ call \in {[op |-> "merge_analyst_data", states |-> s] :
                    s \in EntryPairs("analyst_data", AnalystEntries)}
    \/ call \in ParallelOutputs
    \/ call \in {[op |-> "classify", query |-> q, symbols |-> y,
                   answer1 |-> a1, answer2 |-> a2] :
                    q \in ClassifiedQueries, y \in GivenSymbols,
                    a1 \in ParserOutcomes, a2 \in ParserOutcomes}
    \/ call \in {[op |-> "route_advanced", state |-> s, answer1 |-> a1, answer2 |-> a2] :
                    s \in RoutedStates, a1 \in Answers, a2 \in Answers}

CallInit ==
    /\ cfg = CHOOSE c \in Configs : TRUE
    /\ status = "idle"
    /\ input = EmptyDict
    /\ chan = EmptyDict
    /\ pending = {}
    /\ outbox = <<>>
    /\ prev = NoStep
    /\ log = <<>>
    /\ clock = 2
    /\ rp = NoLoop
    /\ branches = <<>>
    /\ merges = NoMerge
    /\ IsCall
    /\ ret = NoRet
    /\ NoTracking

Return(value) ==
    /\ ret = NoRet
    /\ ret' = [returned |-> TRUE, value |-> value]
    /\ UNCHANGED <<flowVars, mergeVars, call, trackVars>>

\* The reducer of a field applied to the field's value and an update of it
ReduceCall ==
    /\ call.op = "reduce"
    /\ Return(Reduce(call.field, call.left, call.right))

\* ContextMerger.merge_token_usage(states)
MergeTokenUsageCall ==
    /\ call.op = "merge_token_usage"
    /\ Return(merge_token_usage(call.states))

\* ContextMerger.merge_citations(states)
MergeCitationsCall ==
    /\ call.op = "merge_citations"
    /\ Return(merge_citations(call.states))

\* ContextMerger.merge_research_data(states)
MergeResearchDataCall ==
    /\ call.op = "merge_research_data"
    /\ Return(merge_research_data(call.states))

\* ContextMerger.merge_analyst_data(states)
MergeAnalystDataCall ==
    /\ call.op = "merge_analyst_data"
    /\ Return(merge_analyst_data(call.states))

\* ContextMerger.merge_parallel_agent_outputs(comparison_state, trend_state)
MergeParallelCall ==
    /\ call.op = "merge_parallel_agent_outputs"
    /\ Return(merge_parallel_agent_outputs(call.comparison_state, call.trend_state))

\* QueryIntentClassifier.classify(query, symbols)
ClassifyCall ==
    /\ call.op = "classify"
    /\ Return(classify(call.query, call.symbols, call.answer1, call.answer2))

\* MyFinGPTWorkflow._route_advanced_agents(state)
RouteCall ==
    /\ call.op = "route_advanced"
    /\ Return(route_advanced_agents(call.state, call.answer1, call.answer2))

CallNext ==
    \/ ReduceCall
    \/ MergeTokenUsageCall
    \/ MergeCitationsCall
    \/ MergeResearchDataCall
    \/ MergeAnalystDataCall
    \/ MergeParallelCall
    \/ ClassifyCall
    \/ RouteCall

CallSpec == CallInit /\ [][CallNext]_vars

-----------------------------------------------------------------------------
(* services/progress_manager.py : ProgressTracker, and the stage wrappers of *)
(* orchestrator/workflow.py that notify it, for execute() calls that overlap *)
(* on one workflow instance                                                  *)

Executions == 1..MaxExecutions

\* ProgressTracker.__init__
NewTracker ==
    [current_agent |-> NoneStr, current_tasks |-> EmptyDict,
     progress_events |-> <<>>, execution_order |-> <<>>]

\* ProgressEvent; by: the execute() call whose stage made the notification
ProgressEvent(agent, event_type, error, by) ==
    [agent |-> agent, event_type |-> event_type, error |-> error, by |-> by]

\* for entry in reversed(execution_order): the last running entry of the agent
LastRunning(execution_order, agent_name) ==
    LET found == {i \in DOMAIN execution_order :
                    /\ execution_order[i].agent = agent_name
                    /\ execution_order[i].status = "running"}
    IN  IF found = {} THEN 0 ELSE CHOOSE i \in found : \A j \in found : j <= i

MarkLast(execution_order, agent_name, ended) ==
    LET i == LastRunning(execution_order, agent_name)
    IN  IF i = 0 THEN execution_order
        ELSE [execution_order EXCEPT ![i].status = ended]

\* if self.current_agent == agent_name: clear it and its tasks
ClearCurrent(tracker, agent_name) ==
    IF tracker.current_agent = agent_name
    THEN [tracker EXCEPT !.current_agent = NoneStr,
                         !.current_tasks = Drop(@, {agent_name})]
    ELSE tracker

\* ProgressTracker.start_agent, with a non-empty task list
start_agent(tracker, agent_name, by) ==
    [tracker EXCEPT
        !.current_agent = agent_name,
        !.current_tasks = Put(@, agent_name, "tasks"),
        !.execution_order = Append(@, [agent |-> agent_name, status |-> "running"]),
        !.progress_events = Append(@, ProgressEvent(agent_name, "agent_started",
                                                    NoneStr, by))]

\* ProgressTracker.complete_agent
complete_agent(tracker, agent_name, by) ==
    ClearCurrent(
        [tracker EXCEPT
            !.execution_order = MarkLast(@, agent_name, "completed"),
            !.progress_events = Append(@, ProgressEvent(agent_name, "agent_completed",
                                                        NoneStr, by))],
        agent_name)

\* ProgressTracker.fail_agent
fail_agent(tracker, agent_name, error, by) ==
    ClearCurrent(
        [tracker EXCEPT
            !.execution_order = MarkLast(@, agent_name, "failed"),
            !.progress_events = Append(@, ProgressEvent(agent_name, "agent_failed",
                                                        error, by))],
        agent_name)

\* The agents whose wrappers run in each superstep of the graph a
\* configuration builds; the routing node notifies no tracker.
StageSteps(c) ==
    <<{"ResearchAgent"}>>
    \o (IF c.edgar_agent THEN <<{"EdgarAgent"}>> ELSE <<>>)
    \o (IF c.analyst_agent THEN <<{"AnalystAgent"}>> ELSE <<>>)
    \o (IF HasRouting(c)
        THEN <<(IF c.comparison_agent THEN {"ComparisonAgent"} ELSE {})
               \cup (IF c.trend_agent THEN {"TrendAgent"} ELSE {})>>
        ELSE <<>>)
    \o (IF c.reporting_agent THEN <<{"ReportingAgent"}>> ELSE <<>>)

RECURSIVE StageCount(_)
StageCount(steps) ==
    IF steps = <<>> THEN 0 ELSE Cardinality(Head(steps)) + StageCount(Tail(steps))

StageAgents == {"ResearchAgent", "EdgarAgent", "AnalystAgent", "ComparisonAgent",
                "TrendAgent", "ReportingAgent"}

NoOptionalAgent ==
    [enable_parallel |-> FALSE, enable_conditional |-> FALSE, edgar_agent |-> FALSE,
     analyst_agent |-> FALSE, comparison_agent |-> FALSE, trend_agent |-> FALSE,
     reporting_agent |-> FALSE]

\* The workflows the execute() calls are made on: research and analyst in a
\* line, and research with comparison and trend behind the routing node
TrackedConfigs ==
    {[NoOptionalAgent EXCEPT !.analyst_agent = TRUE],
     [NoOptionalAgent EXCEPT !.enable_conditional = TRUE, !.comparison_agent = TRUE,
                             !.trend_agent = TRUE]}

\* A stage wrapper about to run
NewThread == [pc |-> "new", agent |-> "none", error |-> NoneStr]

NotStarted == [pc |-> "idle", step |-> 0, threads |-> <<>>]

ProgressInit ==
    /\ cfg \in TrackedConfigs
    /\ status = "idle"
    /\ input = EmptyDict
    /\ chan = EmptyDict
    /\ pending = {}
    /\ outbox = <<>>
    /\ prev = NoStep
    /\ log = <<>>
    /\ clock = 2
    /\ rp = NoLoop
    /\ branches = <<>>
    /\ merges = NoMerge
    /\ call = NoCall
    /\ ret = NoRet
    /\ progress_tracker = NoTracker
    /\ trackers = [e \in Executions |-> NewTracker]
    /\ executions = [e \in Executions |-> NotStarted]

\* MyFinGPTWorkflow.execute(state, progress_tracker): the tracker of the call
\* is stored in the instance, then the graph is invoked.  The calls are
\* numbered in the order they begin.
ExecuteCall(e) ==
    /\ executions[e].pc = "idle"
    /\ \A d \in Executions : d < e => executions[d].pc # "idle"
    /\ e * StageCount(StageSteps(cfg)) <= MaxStageRuns
    /\ progress_tracker' = e
    /\ executions' = [executions EXCEPT ![e] =
            [pc |-> "running", step |-> 1,
             threads |-> [a \in StageSteps(cfg)[1] |-> NewThread]]]
    /\ UNCHANGED <<flowVars, mergeVars, callVars, trackers>>

Thread(e, a) == executions[e].threads[a]

AtStage(e, a, pc) ==
    /\ executions[e].pc = "running"
    /\ a \in DOMAIN executions[e].threads
    /\ Thread(e, a).pc = pc

\* if self.progress_tracker: self.progress_tracker.start_agent(agent_name, tasks)
\* The tracker's method changes the tracker and then starts the thread that
\* sends the update; raises: starting it fails.
NotifyStart(e, a) ==
    /\ AtStage(e, a, "new")
    /\ \E raises \in Booleans :
        /\ raises => progress_tracker # NoTracker
        /\ trackers' = IF progress_tracker = NoTracker THEN trackers
                       ELSE [trackers EXCEPT ![progress_tracker] = start_agent(@, a, e)]
        /\ executions' = [executions EXCEPT ![e].threads[a] =
                IF raises THEN [@ EXCEPT !.pc = "except", !.error = "observer"]
                ELSE [@ EXCEPT !.pc = "started"]]
    /\ UNCHANGED <<flowVars, mergeVars, callVars, progress_tracker>>

\* result = self.<agent>.execute(state), which touches nothing the stages
\* share, and the notification that follows it:
\*   if self.progress_tracker: self.progress_tracker.complete_agent(agent_name)
\*   return result
\* when the agent returned, the except clause when it raised.
RunAgent(e, a) ==
    /\ AtStage(e, a, "started")
    /\ \E raised \in Booleans, raises \in Booleans :
        /\ raises => (~raised /\ progress_tracker # NoTracker)
        /\ trackers' =
             IF progress_tracker = NoTracker THEN trackers
             ELSE IF raised
             THEN [trackers EXCEPT ![progress_tracker] = fail_agent(@, a, "agent", e)]
             ELSE [trackers EXCEPT ![progress_tracker] = complete_agent(@, a, e)]
        /\ executions' = [executions EXCEPT ![e].threads[a] =
             IF raised THEN [pc |-> "raised", agent |-> "raised", error |-> "agent"]
             ELSE IF raises
             THEN [pc |-> "except", agent |-> "returned", error |-> "observer"]
             ELSE [pc |-> "done", agent |-> "returned", error |-> NoneStr]]
    /\ UNCHANGED <<flowVars, mergeVars, callVars, progress_tracker>>

\* except Exception as e: if self.progress_tracker: fail_agent(agent_name, str(e))
\* raise      (an exception of fail_agent leaves the stage just as well)
NotifyFail(e, a) ==
    /\ AtStage(e, a, "except")
    /\ trackers' = IF progress_tracker = NoTracker THEN trackers
                   ELSE [trackers EXCEPT ![progress_tracker] =
                            fail_agent(@, a, Thread(e, a).error, e)]
    /\ executions' = [executions EXCEPT ![e].threads[a].pc = "raised"]
    /\ UNCHANGED <<flowVars, mergeVars, callVars, progress_tracker>>

StepOver(e) ==
    /\ executions[e].pc = "running"
    /\ \A a \in DOMAIN executions[e].threads : Thread(e, a).pc \in {"done", "raised"}

StageRaised(e) == \E a \in DOMAIN executions[e].threads : Thread(e, a).pc = "raised"

\* The next superstep of the graph
NextStep(e) ==
    /\ StepOver(e)
    /\ ~StageRaised(e)
    /\ executions[e].step < Len(StageSteps(cfg))
    /\ executions' = [executions EXCEPT ![e] =
            [pc |-> "running", step |-> @.step + 1,
             threads |-> [a \in StageSteps(cfg)[@.step + 1] |-> NewThread]]]
    /\ UNCHANGED <<flowVars, mergeVars, callVars, progress_tracker, trackers>>

\* return result ; finally: self.progress_tracker = None
ExecuteReturn(e) ==
    /\ StepOver(e)
    /\ ~StageRaised(e)
    /\ executions[e].step = Len(StageSteps(cfg))
    /\ executions' = [executions EXCEPT ![e].pc = "returned"]
    /\ progress_tracker' = NoTracker
    /\ UNCHANGED <<flowVars, mergeVars, callVars, trackers>>

\* a stage raised: graph.invoke raises ; finally: self.progress_tracker = None
ExecuteRaise(e) ==
    /\ StepOver(e)
    /\ StageRaised(e)
    /\ executions' = [executions EXCEPT ![e].pc = "raised"]
    /\ progress_tracker' = NoTracker
    /\ UNCHANGED <<flowVars, mergeVars, callVars, trackers>>

ProgressNext ==
    \/ \E e \in Executions : ExecuteCall(e)
    \/ \E e \in Executions, a \in StageAgents : NotifyStart(e, a)
    \/ \E e \in Executions, a \in StageAgents : RunAgent(e, a)
    \/ \E e \in Executions, a \in StageAgents : NotifyFail(e, a)
    \/ \E e \in Executions : NextStep(e)
    \/ \E e \in Executions : ExecuteReturn(e)
    \/ \E e \in Executions : ExecuteRaise(e)

ProgressSpec == ProgressInit /\ [][ProgressNext]_vars

-----------------------------------------------------------------------------
(* Properties *)

Runs(node) == Cardinality({i \in DOMAIN log : log[i] = node})
Before(a, b) ==
    \A i \in DOMAIN log, j \in DOMAIN log : log[i] = a /\ log[j] = b => i < j
Started(node) == node \in Range(log)
ValidationErrors(state) ==
    {i \in DOMAIN Get(state, "errors", <<>>) : state["errors"][i][1] = "Invalid state for"}
AllAgents ==
    cfg.edgar_agent /\ cfg.analyst_agent /\ cfg.comparison_agent /\ cfg.trend_agent
    /\ cfg.reporting_agent /\ cfg.enable_conditional

\* C1: an exception raised by a wrapped agent inside a stage node never leaves
\* MyFinGPTWorkflow.execute: no execution ends by raising.
C1_NoExceptionLeavesExecute == status # "raised"

\* C2: once a stage has found a required field missing, no later stage is
\* invoked and no later stage writes a field: at most the first stage has
\* started, and query_type and intent_flags are as the caller handed them.
C2_ValidationFailureStopsTheGraph ==
    (status \in {"running", "done"} /\ ~validate_state(input)) =>
        /\ Len(log) <= 1
        /\ Get(chan, "query_type", NoneStr) = Get(input, "query_type", NoneStr)
        /\ Get(chan, "intent_flags", EmptyDict) = Get(input, "intent_flags", EmptyDict)

C4_OptionalStagesAreGated ==
    /\ Started("comparison") => should_use_comparison_agent(chan)
    /\ Started("trend") => should_use_trend_agent(chan)

\* C5 as stated: every execution that returns, whatever the build
\* configuration, has run route_advanced exactly once.
C5_RoutingRunsOnceInEveryBuild == status = "done" => Runs("route_advanced") = 1

\* C5: route_advanced is a node of the graph only when conditional routing is
\* enabled and a comparison or trend agent is supplied.  It then runs at most
\* once, exactly once in an execution that returns, alone in its step, after
\* the analyst stage returned (when there is one) and before comparison and
\* trend, which never start without it.  In any other build it never runs.
C5_RoutingRunsOnceWhenBuilt ==
    /\ Runs("route_advanced") <= 1
    /\ Started("route_advanced") => HasRouting(cfg)
    /\ (status = "done" /\ HasRouting(cfg)) => Runs("route_advanced") = 1
    /\ "route_advanced" \in pending =>
          /\ pending = {"route_advanced"}
          /\ outbox = <<>>
          /\ cfg.analyst_agent => Started("analyst")
          /\ ~Started("comparison") /\ ~Started("trend")
    /\ Before("analyst", "route_advanced")
    /\ Before("route_advanced", "comparison")
    /\ Before("route_advanced", "trend")
    /\ (Started("comparison") \/ Started("trend")) => Started("route_advanced")

C5_Witness ==
    /\ status = "done"
    /\ Runs("route_advanced") = 1
    /\ Started("analyst") /\ Started("comparison") /\ Started("trend")

\* C6: the state the reporting stage receives after the comparison/trend fan-in
\* is the same whichever of the two branches is merged first, field by field,
\* the order of errors and citations included.
C6_FanInIsOrderIndependent ==
    (/\ Len(prev.writes) = 2
     /\ {prev.writes[1][1], prev.writes[2][1]} = {"comparison", "trend"}) =>
        ApplyWrites(prev.state, prev.writes)
            = ApplyWrites(prev.state, <<prev.writes[2], prev.writes[1]>>)

\* C7: during the per-symbol research fan-out no branch shares a mutable part of
\* the state: the parent state is as it was on entry until the merge, and every
\* branch result reads as it did when its branch returned.
C7_BranchesShareNothing ==
    rp.active =>
        /\ rp.state = rp.entry
        /\ \A j \in DOMAIN rp.results : Deref(rp.results[j]) = rp.results[j].state

\* C8: when comparison and trend are both in the graph, reporting is triggered
\* only by the step in which both ended, with nothing else running and both
\* returned states already merged into the graph state, and it starts after
\* both.
C8_ReportingAfterFanIn ==
    (HasRouting(cfg) /\ cfg.comparison_agent /\ cfg.trend_agent) =>
        /\ "reporting" \in pending =>
              /\ pending = {"reporting"}
              /\ outbox = <<>>
              /\ {prev.writes[i][1] : i \in DOMAIN prev.writes} = {"comparison", "trend"}
              /\ chan = ApplyWrites(prev.state, prev.writes)
        /\ ("reporting" \in pending \/ Started("reporting")) =>
              /\ Runs("comparison") = 1
              /\ Runs("trend") = 1
        /\ Before("comparison", "reporting")
        /\ Before("trend", "reporting")

C8_Witness ==
    /\ status = "done"
    /\ Started("reporting")
    /\ log[Len(log) - 1] = "comparison"
    /\ Get(chan, "comparison_data", EmptyDict) # EmptyDict
    /\ Get(chan, "trend_analysis", EmptyDict) # EmptyDict

LinearNodes == {"research", "research_parallel", "edgar", "analyst", "route_advanced", "reporting"}

\* C9: the stages of the linear part run in the declared order, research, edgar,
\* analyst, route_advanced, reporting, each at most once and each triggered
\* alone, after the stage before it returned; nothing starts after reporting;
\* an execution that returns has run every linear stage of its graph.
C9_LinearOrder ==
    /\ \A n \in LinearNodes : Runs(n) <= 1
    /\ \A n \in LinearNodes : n \in pending => pending = {n} /\ outbox = <<>>
    /\ Before(ResearchNode(cfg), "edgar")
    /\ Before(ResearchNode(cfg), "analyst")
    /\ Before("edgar", "analyst")
    /\ Before("analyst", "route_advanced")
    /\ \A n \in Nodes(cfg) \ {"reporting"} : Before(n, "reporting")
    /\ log # <<>> => log[1] = ResearchNode(cfg)
    /\ status = "done" => \A n \in Nodes(cfg) \cap LinearNodes : Runs(n) = 1

C9_Witness ==
    /\ status = "done"
    /\ log = <<"research", "edgar", "analyst", "route_advanced", "trend", "reporting">>

Disjoint(f) == (DOMAIN branches[1][f]) \cap (DOMAIN branches[2][f]) = {}

\* C10: for two branch states whose keyed data have disjoint key sets, merging
\* A then B gives the same research_data, analyst_data, comparison_data and
\* trend_analysis as merging B then A, and keeps every key of both sides.
C10_DisjointMergeCommutes ==
    merges # NoMerge =>
        \A f \in KeyedFields :
            Disjoint(f) =>
                /\ merges.ab[f] = merges.ba[f]
                /\ DOMAIN merges.ab[f] = (DOMAIN branches[1][f]) \cup (DOMAIN branches[2][f])

\* C11: for every declared field the reducer is the identity on the field's
\* empty value: reducer(empty, X) = X and reducer(X, empty) = X for every
\* value X of the field.
C11_EmptyIsIdentity ==
    (call.op = "reduce" /\ ret.returned) =>
        /\ call.left = EmptyOf(call.field) => ret.value = call.right
        /\ call.right = EmptyOf(call.field) => ret.value = call.left

\* C12: when two token_usage values are merged by the field's reducer, the
\* counters of an agent name present on both sides are added, counter by
\* counter.
C12_TokenUsageReducerAdds ==
    (call.op = "reduce" /\ call.field = "token_usage" /\ ret.returned) =>
        \A a \in (DOMAIN call.left) \cap (DOMAIN call.right) : \A c \in Counters :
            Get(ret.value[a], c, 0) = Get(call.left[a], c, 0) + Get(call.right[a], c, 0)

RECURSIVE CounterSum(_, _, _)
CounterSum(states, a, c) ==
    IF states = <<>> THEN 0
    ELSE Get(Get(Get(Head(states), "token_usage", EmptyDict), a, EmptyDict), c, 0)
         + CounterSum(Tail(states), a, c)

AgentNames(states) ==
    UNION {DOMAIN Get(states[i], "token_usage", EmptyDict) : i \in DOMAIN states}

\* C13: merge_token_usage over N states returns every agent name that occurs
\* in a state, with prompt_tokens, completion_tokens and total_tokens each the
\* sum of that counter over the N states, a missing counter counting as 0.
C13_MergeTokenUsageSums ==
    (call.op = "merge_token_usage" /\ ret.returned) =>
        /\ DOMAIN ret.value = AgentNames(call.states)
        /\ \A a \in DOMAIN ret.value :
              /\ DOMAIN ret.value[a] = Counters
              /\ \A c \in Counters : ret.value[a][c] = CounterSum(call.states, a, c)

C13_Witness ==
    /\ call.op = "merge_token_usage"
    /\ ret.returned
    /\ Len(call.states) = MaxStates
    /\ AgentNames(call.states) = {"AnalystAgent", "TrendAgent"}
    /\ ret.value["AnalystAgent"]["total_tokens"] = 10
    /\ ret.value["AnalystAgent"]["prompt_tokens"] = 3

OnePerKey(citations) ==
    \A i \in DOMAIN citations, j \in DOMAIN citations :
        CitationKey(citations[i]) = CitationKey(citations[j]) => i = j

\* C14: merged citations hold at most one entry per (source, symbol, type),
\* through the reducer of the citations field and through merge_citations,
\* also when two entries of one key differ in another attribute.
C14_OneCitationPerKey ==
    (/\ ret.returned
     /\ \/ call.op = "reduce" /\ call.field = "citations"
        \/ call.op = "merge_citations") =>
        OnePerKey(ret.value)

ErrorsOf(state) == Get(state, "errors", <<>>)
IsPrefix(a, b) == Len(a) <= Len(b) /\ SubSeq(b, 1, Len(a)) = a
NoRepeat(list) == \A i \in DOMAIN list, j \in DOMAIN list : list[i] = list[j] => i = j
Position(list, item) == CHOOSE i \in DOMAIN list : list[i] = item

FirstAt(list, i) == \A h \in 1..(i - 1) : list[h] # list[i]

\* every item of `recorded` is in `final`, in the order of its first appearance
KeptInOrder(recorded, final) ==
    /\ Range(recorded) \subseteq Range(final)
    /\ \A i \in DOMAIN recorded, j \in DOMAIN recorded :
          (i < j /\ FirstAt(recorded, i) /\ FirstAt(recorded, j))
            => Position(final, recorded[i]) < Position(final, recorded[j])

WriteOnceFields == StrFields \cup {"created_at", "symbols"}

\* C16: once transaction_id, session_id, query, created_at or symbols holds a
\* non-empty value a merge does not change it, and an update that holds a
\* different value is reported by the merge.
C16_WriteOnceAndFlagged ==
    (/\ call.op = "reduce"
     /\ call.field \in WriteOnceFields
     /\ call.left # EmptyOf(call.field)
     /\ ret.returned) =>
        /\ ret.value = call.left
        /\ (call.right # call.left /\ call.right # EmptyOf(call.field)) =>
              first_value_log(call.field, call.left, call.right) # "nothing"

\* The query types of one priority class; the parser's "analysis" and "metric"
\* are taken for the single-entity default.
TypesOf(class) ==
    CASE class = "filing" -> {"filing_analysis"}
      [] class = "comparison" -> {"comparison", "comprehensive_comparison"}
      [] class = "trend" -> {"trend", "comprehensive_trend"}
      [] class = "comprehensive" -> {"comprehensive_analysis", "comprehensive"}
      [] OTHER -> {"single_entity", "analysis", "metric"}

PriorityClass(flags) ==
    IF flags["is_edgar"] THEN "filing"
    ELSE IF flags["is_comparison"] THEN "comparison"
    ELSE IF flags["is_trend"] THEN "trend"
    ELSE IF flags["is_comprehensive"] THEN "comprehensive"
    ELSE "single"

\* C17: the query type classify returns is the first that applies of filing
\* analysis, comparison, trend, comprehensive and single-entity, read off the
\* flags it returns; a query with filing and comparison language is a filing
\* analysis.
C17_QueryTypeByPriority ==
    (call.op = "classify" /\ ret.returned) =>
        /\ ret.value.query_type \in TypesOf(PriorityClass(ret.value.intent_flags))
        /\ (call.query.edgar = 2 /\ call.query.cmp >= 1) =>
              ret.value.query_type = "filing_analysis"

\* C18 as stated: a state whose query_type is not null and that holds
\* intent_flags leaves the routing node as it entered it.
C18_NonNullIsPassedThrough ==
    (/\ call.op = "route_advanced"
     /\ ret.returned
     /\ Has(call.state, "query_type") /\ call.state["query_type"] # NoneStr
     /\ Has(call.state, "intent_flags")) =>
        ret.value = call.state

\* C18: a state whose query_type is neither null nor the empty string and that
\* holds intent_flags leaves the routing node as it entered it, whatever the
\* classifier would have answered, and so does every later run of the node.
C18_ClassifiedIsPassedThrough ==
    (/\ call.op = "route_advanced"
     /\ ret.returned
     /\ Has(call.state, "query_type") /\ call.state["query_type"] \notin {NoneStr, ""}
     /\ Has(call.state, "intent_flags")) =>
        /\ ret.value = call.state
        /\ \A a1 \in Answers, a2 \in Answers :
              route_advanced_agents(ret.value, a1, a2) = ret.value

C18_Witness ==
    /\ call.op = "route_advanced"
    /\ ret.returned
    /\ Has(call.state, "query_type") /\ call.state["query_type"] = "comparison"
    /\ Has(call.state, "intent_flags") /\ call.state["intent_flags"] = EmptyDict
    /\ call.state["symbols"] = <<>>
    /\ call.answer1.ok /\ call.answer2.ok
    /\ ret.value = call.state

RuleFlags == {"is_comparison", "is_trend", "is_edgar", "is_comprehensive"}

\* C19: every flag the rule-based pass of classify set to true is true in the
\* intent_flags classify returns.
C19_RuleFlagsStayTrue ==
    (call.op = "classify" /\ ret.returned) =>
        \A f \in RuleFlags :
            rule_flags(call.query, ret.value.symbols)[f] => ret.value.intent_flags[f]

\* The result of the rule-based pass over the symbols classify settled on
RuleBased(query, symbols) ==
    [query_type |-> determine_query_type(rule_flags(query, symbols), symbols),
     intent_flags |-> rule_flags(query, symbols),
     symbols |-> symbols]

Researched(result) == DOMAIN Get(result.state, "research_data", EmptyDict)

\* C21: with two or more symbols the fan-out invokes the research agent once
\* per symbol, each time on a state whose symbols list is that symbol alone,
\* and the research_data the node returns and the graph state then holds has a
\* key for every symbol whose research succeeded, whatever another symbol's
\* research did.
C21_FanOutPerSymbol ==
    [][/\ (rp.active /\ rp'.active /\ rp' # rp) =>
              /\ Len(rp'.results) = rp.i
              /\ rp'.results[rp.i].state["symbols"] = <<rp.entry["symbols"][rp.i]>>
       /\ (rp.active /\ ~rp'.active) =>
              /\ Len(rp.results) = Len(rp.entry["symbols"])
              /\ \A j \in DOMAIN rp.results :
                    Researched(rp.results[j]) \subseteq
                        (DOMAIN prev'.writes[Len(prev'.writes)][2]["research_data"])
                        \cap (DOMAIN chan'["research_data"])]_vars

C21_Witness ==
    /\ cfg.enable_parallel
    /\ status = "done"
    /\ Runs("research_parallel") = 1
    /\ Len(input["symbols"]) = MaxSymbols
    /\ <<"Failed to fetch data for", "MSFT">> \in Range(ErrorsOf(chan))
    /\ DOMAIN chan["research_data"] = {"AAPL"}

\* The stages of execute() call e that have been entered
StagesOf(e) == DOMAIN executions[e].threads

Called(e) == executions[e].pc # "idle"

\* No other execute() call has begun
Alone(e) == \A d \in Executions \ {e} : ~Called(d)

\* The event types a tracker holds for the agent, notified by call e, in order
Notified(tracker, agent_name, e) ==
    LET Mine(ev) == ev.agent = agent_name /\ ev.by = e
        events == SelectSeq(tracker.progress_events, Mine)
    IN  [i \in DOMAIN events |-> events[i].event_type]

\* C22: a notification that raises does not change the outcome of the stage
\* that made it: a stage raises only when its agent raised, no agent_failed is
\* notified for an agent that returned, and execute() raises only when an
\* agent raised.
C22_ObserverFailureIsHarmless ==
    \A e \in Executions :
        /\ \A a \in StagesOf(e) :
            /\ Thread(e, a).pc \in {"except", "raised"} => Thread(e, a).agent = "raised"
            /\ Thread(e, a).agent = "returned" =>
                  \A x \in Executions :
                      ~Contains(Notified(trackers[x], a, e), "agent_failed")
        /\ executions[e].pc = "raised" =>
              \E a \in StagesOf(e) : Thread(e, a).agent = "raised"

\* C23: with execute() calls that overlap on one workflow instance, every
\* notification a tracker receives was made by a stage of the call it was
\* passed to, and every stage of a call that has started notified the tracker
\* of its call.
C23_NotificationsReachTheirTracker ==
    \A e \in Executions :
        /\ \A i \in DOMAIN trackers[e].progress_events :
              trackers[e].progress_events[i].by = e
        /\ Called(e) =>
              \A a \in StagesOf(e) :
                  Thread(e, a).pc # "new" =>
                      Contains(Notified(trackers[e], a, e), "agent_started")

\* C25: with one execute() call and its tracker, a stage that has ended
\* notified agent_started and then exactly one of agent_completed, when its
\* agent returned, and agent_failed, when it did not.
C25_OneTerminalNotification ==
    \A e \in Executions :
        (Called(e) /\ Alone(e)) =>
            \A a \in StagesOf(e) :
                Thread(e, a).pc \in {"done", "raised"} =>
                    Notified(trackers[e], a, e) =
                        IF Thread(e, a).agent = "returned"
                        THEN <<"agent_started", "agent_completed">>
                        ELSE <<"agent_started", "agent_failed">>

Count(events, agent_name, types) ==
    Cardinality({i \in DOMAIN events :
                    events[i].agent = agent_name /\ events[i].event_type \in types})

\* Every agent the tracker saw start has completed or failed since
AllEnded(tracker) ==
    /\ tracker.progress_events # <<>>
    /\ \A a \in StageAgents :
          Count(tracker.progress_events, a, {"agent_started"})
            <= Count(tracker.progress_events, a, {"agent_completed", "agent_failed"})

\* C30: once every agent started on a tracker has completed or failed,
\* current_agent is None, current_tasks is empty and no entry of
\* execution_order is running; the tracker is used by its own call only.
C30_TrackerSettles ==
    \A e \in Executions :
        (Alone(e) /\ AllEnded(trackers[e])) =>
            /\ trackers[e].current_agent = NoneStr
            /\ trackers[e].current_tasks = EmptyDict
            /\ \A i \in DOMAIN trackers[e].execution_order :
                  trackers[e].execution_order[i].status # "running"

\* The populated sub-fields of a research entry: the fields of its price
\* data and the non-empty fields of its company information
Populated(entry) ==
    Cardinality(DOMAIN entry["price"])
    + Cardinality({k \in DOMAIN entry["company_info"] : Truthy(entry["company_info"][k])})

\* C24: of two entries for one symbol the merge keeps the data of the more
\* populated one, and of two equally populated ones that of the later one:
\* price and company information for research data, the analysis with the
\* longer text for analyst data.
C24_MorePopulatedThenLaterWins ==
    LET earlier == call.states[1]
        later == call.states[2]
    IN  /\ (call.op = "merge_research_data" /\ ret.returned) =>
            LET e == earlier["research_data"]["AAPL"]
                n == later["research_data"]["AAPL"]
                winner == IF Populated(n) >= Populated(e) THEN n ELSE e
            IN  /\ ret.value["AAPL"]["price"] = winner["price"]
                /\ ret.value["AAPL"]["company_info"] = winner["company_info"]
        /\ (call.op = "merge_analyst_data" /\ ret.returned) =>
            LET e == earlier["analyst_data"]["AAPL"]
                n == later["analyst_data"]["AAPL"]
            IN  ret.value["AAPL"] =
                    IF Chars(n["raw_content"]) >= Chars(e["raw_content"]) THEN n ELSE e

\* C29: the state merge_parallel_agent_outputs returns holds the
\* comparison_data of the comparison branch and the trend_analysis of the
\* trend branch.
C29_EachBranchKeepsItsResult ==
    (call.op = "merge_parallel_agent_outputs" /\ ret.returned) =>
        /\ Get(ret.value, "comparison_data", EmptyDict)
              = Get(call.comparison_state, "comparison_data", EmptyDict)
        /\ Get(ret.value, "trend_analysis", EmptyDict)
              = Get(call.trend_state, "trend_analysis", EmptyDict)

\* C26: in every result of classify, is_single_entity says that the returned
\* symbols list has one element and is_multi_entity that it has more than
\* one; the two are never both true.
C26_EntityFlagsFollowSymbols ==
    (call.op = "classify" /\ ret.returned) =>
        /\ ret.value.intent_flags["is_single_entity"] = (Len(ret.value.symbols) = 1)
        /\ ret.value.intent_flags["is_multi_entity"] = (Len(ret.value.symbols) > 1)
        /\ ~(/\ ret.value.intent_flags["is_single_entity"]
             /\ ret.value.intent_flags["is_multi_entity"])

\* C27: every key of every state a stage returns to the graph is a declared
\* field of AgentState; no write of the last step holds an undeclared key.
C27_StagesWriteDeclaredFields ==
    \A i \in DOMAIN prev.writes : DOMAIN prev.writes[i][2] \subseteq AgentState

\* The nodes the edges of the graph lead to from the given ones
RECURSIVE ReachableFrom(_, _)
ReachableFrom(c, seen) ==
    LET next == seen \cup {e[2] : e \in {x \in Edges(c) : x[1] \in seen}}
    IN  IF next = seen THEN seen ELSE ReachableFrom(c, next)

\* C28: whatever optional agents and flags the workflow is built with, every
\* edge of the graph joins nodes that were added to it (or END), and END is
\* reachable from the entry node.
C28_AbsentStagesAreRoutedAround ==
    /\ Compiles(cfg)
    /\ END \in ReachableFrom(cfg, {ResearchNode(cfg)})

====
